---- MODULE Spec2Model ----
(***************************************************************************)
(* A model of egui_pigeon's EguiPipe (src/src/lib.rs): the per-frame       *)
(* prepare step (geometry batching and texture deltas), the render step,   *)
(* and the pure function calculate_pixel_rect.                             *)
(*                                                                         *)
(* Numbers.  The f32 values of the source are modelled exactly as          *)
(* fixed-point integers: clip-rect coordinates and pixels_per_point are    *)
(* integers counting halves (3 stands for 1.5), their product counts       *)
(* quarters.  Every value of the model is a small dyadic rational, which   *)
(* f32 represents and multiplies without rounding, so the fixed-point      *)
(* arithmetic below is the arithmetic the build performs on these inputs.  *)
(* u32 values stay far below 2^32; the only u32 hazard that can arise is a *)
(* subtraction below zero, which is detected explicitly.                   *)
(***************************************************************************)
EXTENDS Integers, Sequences, FiniteSets, TLC

VARIABLES
    vertex_buffer,   \* EguiPipe.vertex_buffer: the vertices last uploaded
    index_buffer,    \* EguiPipe.index_buffer: the indices last uploaded
    egui_texture,    \* EguiPipe.egui_texture: TextureId -> texture entry
    groups,          \* EguiPipe.groups
    uniform,         \* the Uniform returned by the last prepare
    pass,            \* what the last render issued on the render pass
    log,             \* log::warn! messages of the last prepare / render
    frame,           \* history: primitives, screen and freed ids of the last prepare, if any
    everSet,         \* history: texture ids seen in a set-delta so far
    trail,           \* history: per texture id, the deltas applied to it
    allocs,          \* history: per texture id, the GPU textures created for it
    calc_in,         \* calculate_pixel_rect harness: the arguments
    calc_out         \* calculate_pixel_rect harness: the results so far

vars == <<vertex_buffer, index_buffer, egui_texture, groups, uniform, pass,
          log, frame, everSet, trail, allocs, calc_in, calc_out>>

pipeVars == <<vertex_buffer, index_buffer, egui_texture, groups, uniform, pass,
              log, frame, everSet, trail, allocs>>

calcVars == <<calc_in, calc_out>>

(***************************************************************************)
(* Bounds of the model.                                                    *)
(***************************************************************************)
\* clip-rect coordinates range over -CoordNeg .. CoordPos halves of a point
CoordNeg == 1
CoordPos == 5
\* target sizes range over 0 .. MaxTarget pixels on each axis
MaxTarget == 3
\* a frame holds at most MaxPrims clipped primitives
MaxPrims == 2

\* Option::None, and the absence of an object or a binding
None == <<>>

Min2(a, b) == IF a < b THEN a ELSE b
Max2(a, b) == IF a > b THEN a ELSE b

(***************************************************************************)
(* calculate_pixel_rect                                                    *)
(***************************************************************************)
\* f32 * f32 of pixels_per_point (halves) and a coordinate (halves): quarters
ScaleF32(ppp, c) == ppp * c

\* u32 as f32, in quarters (exact below 2^24)
AsF32(n) == 4 * n

\* f32::clamp
Clamp(v, lo, hi) == IF v < lo THEN lo ELSE IF v > hi THEN hi ELSE v

\* f32::round on a value in quarters: nearest integer, halves away from zero
RoundF32(q) == IF q >= 0 THEN (q + 2) \div 4 ELSE -((2 - q) \div 4)

\* f32 as u32 of an integral value: saturating at zero
AsU32(n) == IF n < 0 THEN 0 ELSE n

\* u32 - u32; a result below zero is an arithmetic overflow
SubU32(a, b) == IF a >= b THEN a - b ELSE 0
SubUnderflows(a, b) == a < b

\* A slip of the rounding step: .round() left out, so that as u32 truncates.
TruncF32(q) == IF q >= 0 THEN q \div 4 ELSE -((-q) \div 4)

TruncToU32(q) == AsU32(TruncF32(q))

\* lines 357-360: x.round() as u32
RoundToU32(q) == AsU32(RoundF32(q))

\* A slip of lines 354-355: max clamped into [0, target], not [min, target].
ClampMaxLoose(v, clip_min, target) == Clamp(v, 0, AsF32(target))

\* lines 354-355: clip_max.clamp(clip_min, target_size as f32)
ClampMax(v, clip_min, target) == Clamp(v, clip_min, AsF32(target))

\* A slip of lines 362-363: the .max(1) left out.
ExtentNoFloor(clip_max, clip_min) == SubU32(clip_max, clip_min)

\* A slip of lines 362-363: an inclusive extent, max - min + 1.
ExtentInclusive(clip_max, clip_min) == Max2(SubU32(clip_max, clip_min) + 1, 1)

\* lines 362-363: (clip_max - clip_min).max(1)
Extent(clip_max, clip_min) == Max2(SubU32(clip_max, clip_min), 1)

\* calculate_pixel_rect(clip_rect, pixels_per_point, target_size).
\* The result carries, beside the Rect, whether a u32 subtraction went below
\* zero on the way (a panic in a debug build, a wrapped value in release).
calculate_pixel_rect(clip_rect, pixels_per_point, target_size) ==
    LET \* Transform to physical pixels
        clip_min_x0 == ScaleF32(pixels_per_point, clip_rect.min.x)
        clip_min_y0 == ScaleF32(pixels_per_point, clip_rect.min.y)
        clip_max_x0 == ScaleF32(pixels_per_point, clip_rect.max.x)
        clip_max_y0 == ScaleF32(pixels_per_point, clip_rect.max.y)
        \* Make sure clip rect can fit within an u32
        clip_min_x1 == Clamp(clip_min_x0, 0, AsF32(target_size[1]))
        clip_min_y1 == Clamp(clip_min_y0, 0, AsF32(target_size[2]))
        clip_max_x1 == ClampMax(clip_max_x0, clip_min_x1, target_size[1])
        clip_max_y1 == ClampMax(clip_max_y0, clip_min_y1, target_size[2])
        clip_min_x  == RoundToU32(clip_min_x1)
        clip_min_y  == RoundToU32(clip_min_y1)
        clip_max_x  == RoundToU32(clip_max_x1)
        clip_max_y  == RoundToU32(clip_max_y1)
        width0      == Extent(clip_max_x, clip_min_x)
        height0     == Extent(clip_max_y, clip_min_y)
        \* Clip scissor rectangle to target size
        x           == Min2(clip_min_x, target_size[1])
        y           == Min2(clip_min_y, target_size[2])
        width       == Min2(width0, SubU32(target_size[1], x))
        height      == Min2(height0, SubU32(target_size[2], y))
    IN  [origin    |-> [x |-> x, y |-> y],
         size      |-> [width |-> width, height |-> height],
         underflow |-> \/ SubUnderflows(clip_max_x, clip_min_x)
                       \/ SubUnderflows(clip_max_y, clip_min_y)
                       \/ SubUnderflows(target_size[1], x)
                       \/ SubUnderflows(target_size[2], y)]

\* euclid Rect::is_empty
RectIsEmpty(r) == ~(r.size.width > 0 /\ r.size.height > 0)

\* The Rect proper, without the underflow flag
RectOnly(r) == [origin |-> r.origin, size |-> r.size]

\* An egui::Rect from whole-point bounds
ClipRect(x0, y0, x1, y1) ==
    [min |-> [x |-> 2 * x0, y |-> 2 * y0], max |-> [x |-> 2 * x1, y |-> 2 * y1]]

\* The pixel rect fed back as a clip rect: (origin, origin + size)
RectAsClip(r) ==
    ClipRect(r.origin.x, r.origin.y,
             r.origin.x + r.size.width, r.origin.y + r.size.height)

(***************************************************************************)
(* Inputs of prepare: primitives                                           *)
(***************************************************************************)
\* Texture ids: 0 is the id egui gives its font atlas, 99 a second id.
TexIds == {0, 99}

\* The index list of a triangle fan over n vertices: (0,1,2), (0,2,3), ...
\* Fan(4) is a quad: 4 vertices, indices 0,1,2, 0,2,3.
Fan(n) ==
    [i \in 1..(3 * (n - 2)) |->
        LET t == ((i - 1) \div 3) + 1
            r == (i - 1) % 3
        IN  IF r = 0 THEN 0 ELSE IF r = 1 THEN t ELSE t + 1]

\* A Mesh primitive that is the k-th of its frame: vertex <<k, j>> stands
\* for the j-th Vertex of the frame's k-th primitive.
MeshPrim(k, n, tex, clip) ==
    [clip_rect |-> clip,
     primitive |-> [kind       |-> "Mesh",
                    indices    |-> Fan(n),
                    vertices   |-> [j \in 1..n |-> <<k, j>>],
                    texture_id |-> tex]]

CallbackPrim(clip) ==
    [clip_rect |-> clip, primitive |-> [kind |-> "Callback"]]

IsMesh(p) == p.primitive.kind = "Mesh"

\* Clip rects of the frames: one visible, one right of every target used.
ClipVisible  == ClipRect(0, 0, 100, 100)
ClipOffRight == ClipRect(300, 0, 400, 100)

\* The primitives a frame may hold at position k: a callback, or a mesh of
\* one of the given shapes <<vertex count, texture id, clip rect>>.
PrimsAt(k, shapes) ==
    {MeshPrim(k, m[1], m[2], m[3]) : m \in shapes} \cup {CallbackPrim(ClipVisible)}

\* All primitive lists of exactly len, and of at most maxLen, primitives.
RECURSIVE PrimListsOfLen(_, _)
PrimListsOfLen(len, shapes) ==
    IF len = 0 THEN {<<>>}
    ELSE {Append(l, p) : l \in PrimListsOfLen(len - 1, shapes),
                         p \in PrimsAt(len, shapes)}

PrimLists(maxLen, shapes) ==
    UNION {PrimListsOfLen(len, shapes) : len \in 0..maxLen}

\* ScreenDescriptor: size in pixels, pixels_per_point in halves
Screen200 == [size_in_pixels |-> <<200, 200>>, pixels_per_point |-> 2]
Screen100 == [size_in_pixels |-> <<100, 100>>, pixels_per_point |-> 4]

(***************************************************************************)
(* Inputs of prepare: texture deltas                                       *)
(***************************************************************************)
\* Color32 values, as (r, g, b, a)
Red   == <<255, 0, 0, 255>>
Green == <<0, 255, 0, 255>>
Blue  == <<0, 0, 255, 255>>

\* ImageData::Color: pixels are Color32.  ImageData::Font: pixels are
\* coverages, here in halves (0, 1, 2 for 0.0, 0.5, 1.0).
FullColor  == [kind |-> "Color", size |-> <<2, 1>>, pixels |-> <<Red, Green>>]
FullFont   == [kind |-> "Font",  size |-> <<2, 1>>, pixels |-> <<2, 0>>]
PatchColor == [kind |-> "Color", size |-> <<1, 1>>, pixels |-> <<Blue>>]
PatchFont  == [kind |-> "Font",  size |-> <<1, 1>>, pixels |-> <<1>>]

\* ImageDelta: an image and an optional position
ImageDeltas ==
    {[image |-> FullColor,  pos |-> None],
     [image |-> FullFont,   pos |-> None],
     [image |-> PatchColor, pos |-> <<0, 0>>],
     [image |-> PatchFont,  pos |-> <<1, 0>>]}

\* TexturesDelta.set maps each id to at most one delta and is iterated in
\* an unspecified order: the sequences of (id, delta) pairs with distinct ids.
SetLists(ids, deltas) ==
    UNION {{f \in [1..len -> ids \X deltas] :
               \A i, j \in 1..len : i # j => f[i][1] # f[j][1]}
           : len \in 0..Cardinality(ids)}

(***************************************************************************)
(* prepare: the batching loop                                              *)
(***************************************************************************)
\* A slip of line 205: the indices appended without the vertex offset.
RebaseNone(indices, si2) == indices

\* line 205: mesh.indices.iter().map(|i| i + si2)
Rebase(indices, si2) == [i \in 1..Len(indices) |-> indices[i] + si2]

\* A slip of line 208: the range started at the buffer's origin.
GroupRangeFromZero(si, end) == <<0, end>>

\* line 208: si..indices.len()
GroupRange(si, end) == <<si, end>>

\* lines 190-213: one iteration of the loop over the primitives
BatchStep(acc, primative, pixels_per_point, size_in_pixels) ==
    IF ~IsMesh(primative)
    THEN [acc EXCEPT !.log = Append(@, "Callback not implemented")]
    ELSE LET mesh       == primative.primitive
             si         == Len(acc.indices)
             si2        == Len(acc.vertices)
             pixel_rect == calculate_pixel_rect(primative.clip_rect,
                                                pixels_per_point, size_in_pixels)
             indices    == acc.indices \o Rebase(mesh.indices, si2)
             vertices   == acc.vertices \o mesh.vertices
         IN  [vertices |-> vertices,
              indices  |-> indices,
              groups   |-> Append(acc.groups,
                                  [range      |-> GroupRange(si, Len(indices)),
                                   tex_id     |-> mesh.texture_id,
                                   pixel_rect |-> RectOnly(pixel_rect)]),
              log      |-> acc.log]

RECURSIVE BatchFrom(_, _, _, _)
BatchFrom(acc, prims, k, sd) ==
    IF k > Len(prims) THEN acc
    ELSE BatchFrom(BatchStep(acc, prims[k], sd.pixels_per_point, sd.size_in_pixels),
                   prims, k + 1, sd)

\* lines 184-214: the three vectors start empty in every prepare
Batch(prims, sd) ==
    BatchFrom([vertices |-> <<>>, indices |-> <<>>, groups |-> <<>>, log |-> <<>>],
              prims, 1, sd)

\* A slip of line 223: the new groups added to the stored ones.
ExtendGroups(old, new) == old \o new

\* line 223: self.groups = groups
StoreGroups(old, new) == new

(***************************************************************************)
(* prepare: the texture deltas                                             *)
(***************************************************************************)
\* FontImage::srgba_pixels(1.0) of one coverage c (halves): a = round(255 c),
\* Color32::from_rgba_premultiplied(a, a, a, a)
FontPixel(c) == LET a == (255 * c + 1) \div 2 IN <<a, a, a, a>>

\* lines 227-244: set_data
set_data(d) ==
    IF d.image.kind = "Color"
    THEN d.image.pixels
    ELSE [i \in 1..Len(d.image.pixels) |-> FontPixel(d.image.pixels[i])]

\* Texture::fill: the whole texture is written with data
TextureFill(tex, data) == [tex EXCEPT !.pixels = data]

\* Texture::transfer: the texels of rect are written with data, row by row
TextureTransfer(tex, data, rect) ==
    [tex EXCEPT !.pixels =
        [i \in 1..Len(tex.pixels) |->
            LET px == (i - 1) % tex.size[1]
                py == (i - 1) \div tex.size[1]
            IN  IF /\ px >= rect.origin[1] /\ px < rect.origin[1] + rect.size[1]
                   /\ py >= rect.origin[2] /\ py < rect.origin[2] + rect.size[2]
                THEN data[(py - rect.origin[2]) * rect.size[1]
                          + (px - rect.origin[1]) + 1]
                ELSE tex.pixels[i]]]

\* lines 268-286: a new texture of the image's size and its binding group,
\* filled with the image.  n is the number of textures created for id before.
CreateEntry(id, d, n) ==
    LET tex == [object |-> <<id, n + 1>>, size |-> d.image.size,
                pixels |-> [i \in 1..(d.image.size[1] * d.image.size[2]) |-> <<0, 0, 0, 0>>]]
    IN  [texture |-> TextureFill(tex, set_data(d)),
         binding |-> <<id, n + 1>>]

\* A slip of lines 261-266: a full update that replaces the cached texture.
UpdateEntryRecreating(t, id, d, n) ==
    IF d.pos # None
    THEN [t EXCEPT !.texture =
             TextureTransfer(@, set_data(d), [origin |-> d.pos, size |-> d.image.size])]
    ELSE CreateEntry(id, d, n)

\* lines 246-266: the entry t of a cached id after a delta
UpdateEntry(t, id, d, n) ==
    IF d.pos # None
    THEN [t EXCEPT !.texture =
             TextureTransfer(@, set_data(d), [origin |-> d.pos, size |-> d.image.size])]
    ELSE [t EXCEPT !.texture = TextureFill(@, set_data(d))]

\* The map m with key k set to v (HashMap::insert)
Insert(m, k, v) == [x \in DOMAIN m \cup {k} |-> IF x = k THEN v ELSE m[x]]

\* The history of the deltas applied to one id: "created" after the delta
\* that created its texture, "partial" after a delta with a position applied
\* next, "full" after a delta without position applied next, "other" from
\* then on.
TrailAfter(tr, present, d, entry) ==
    IF ~present
    THEN [stage |-> "created", object |-> entry.texture.object, image |-> <<>>]
    ELSE IF tr.stage = "created" /\ d.pos # None
    THEN [tr EXCEPT !.stage = "partial"]
    ELSE IF tr.stage = "partial" /\ d.pos = None
    THEN [tr EXCEPT !.stage = "full", !.image = set_data(d)]
    ELSE [stage |-> "other", object |-> None, image |-> <<>>]

\* lines 225-288: one iteration of the loop over context.0.set
DeltaStep(acc, set) ==
    LET id      == set[1]
        d       == set[2]
        present == id \in DOMAIN acc.cache
        entry   == IF present
                   THEN UpdateEntry(acc.cache[id], id, d, acc.allocs[id])
                   ELSE CreateEntry(id, d, acc.allocs[id])
    IN  [cache   |-> Insert(acc.cache, id, entry),
         allocs  |-> [acc.allocs EXCEPT ![id] =
                         IF entry.texture.object[2] > @ THEN entry.texture.object[2] ELSE @],
         trail   |-> [acc.trail EXCEPT ![id] = TrailAfter(@, present, d, entry)],
         everSet |-> acc.everSet \cup {id}]

RECURSIVE DeltasFrom(_, _, _)
DeltasFrom(acc, sets, k) ==
    IF k > Len(sets) THEN acc ELSE DeltasFrom(DeltaStep(acc, sets[k]), sets, k + 1)

\* A slip: the ids of TexturesDelta.free dropped from the cache.
CacheAfterFreeDropping(cache, free) ==
    [x \in DOMAIN cache \ free |-> cache[x]]

\* TexturesDelta.free is not read by prepare
CacheAfterFree(cache, free) == cache

(***************************************************************************)
(* prepare                                                                 *)
(***************************************************************************)
\* lines 291-294: screen_size_in_points, each the quotient
\* size_in_pixels / pixels_per_point as <<numerator, denominator>>
UniformOf(sd) ==
    [screen_size_in_points |->
        <<<<2 * sd.size_in_pixels[1], sd.pixels_per_point>>,
          <<2 * sd.size_in_pixels[2], sd.pixels_per_point>>>>]

\* EguiPipe::prepare(context, paint), context = (textures_delta, prims, sd).
\* A frame begins here: its render pass is still empty.
Prepare(textures_delta, prims, sd) ==
    \E b \in {Batch(prims, sd)},
       t \in {DeltasFrom([cache |-> egui_texture, allocs |-> allocs,
                          trail |-> trail, everSet |-> everSet],
                         textures_delta.set, 1)} :
        /\ vertex_buffer' = b.vertices
        /\ index_buffer' = b.indices
        /\ groups' = StoreGroups(groups, b.groups)
        /\ egui_texture' = CacheAfterFree(t.cache, textures_delta.free)
        /\ uniform' = UniformOf(sd)
        /\ pass' = <<>>
        /\ log' = b.log
        /\ frame' = <<[prims |-> prims, sd |-> sd, free |-> textures_delta.free]>>
        /\ everSet' = t.everSet
        /\ trail' = t.trail
        /\ allocs' = t.allocs
        /\ UNCHANGED calcVars

(***************************************************************************)
(* render                                                                  *)
(***************************************************************************)
Cmd(op, arg, k, bound) == [op |-> op, arg |-> arg, group |-> k, bound |-> bound]

\* lines 310-327: one iteration of the loop over self.groups.  acc.bound is
\* the texture binding in force on the pass.
RenderStep(acc, group, k) ==
    IF RectIsEmpty(group.pixel_rect) THEN acc
    ELSE LET known == group.tex_id \in DOMAIN egui_texture
             bound == IF known THEN egui_texture[group.tex_id].binding ELSE acc.bound
             cmds  == IF known
                      THEN Append(acc.cmds, Cmd("set_binding", bound, k, bound))
                      ELSE acc.cmds
         IN  [bound |-> bound,
              cmds  |-> cmds \o
                        <<Cmd("set_scissor_rect", group.pixel_rect, k, bound),
                          Cmd("draw_indexed", group.range, k, bound)>>,
              log   |-> IF known THEN acc.log
                        ELSE Append(acc.log, <<"Unknown texture", group.tex_id>>)]

RECURSIVE RenderFrom(_, _)
RenderFrom(acc, k) ==
    IF k > Len(groups) THEN acc ELSE RenderFrom(RenderStep(acc, groups[k], k), k + 1)

\* lines 303-308: pipeline and buffers are set; no texture binding is in force
PassStart ==
    [bound |-> None,
     cmds  |-> <<Cmd("set_pipeline", None, 0, None),
                 Cmd("set_vertex_buffer", vertex_buffer, 0, None),
                 Cmd("set_index_buffer", index_buffer, 0, None)>>,
     log   |-> <<>>]

\* EguiPipe::render(paint, pass)
Render ==
    \E r \in {RenderFrom(PassStart, 1)} :
        /\ pass' = r.cmds
        /\ log' = r.log
        /\ UNCHANGED <<vertex_buffer, index_buffer, egui_texture, groups, uniform,
                       frame, everSet, trail, allocs>>
        /\ UNCHANGED calcVars

(***************************************************************************)
(* The pipeline's specifications                                           *)
(***************************************************************************)
NoTrail == [stage |-> "none", object |-> None, image |-> <<>>]

\* EguiPipe::setup
Init ==
    /\ vertex_buffer = <<>>
    /\ index_buffer = <<>>
    /\ egui_texture = <<>>
    /\ groups = <<>>
    /\ uniform = [screen_size_in_points |-> <<<<0, 1>>, <<0, 1>>>>]
    /\ pass = <<>>
    /\ log = <<>>
    /\ frame = None
    /\ everSet = {}
    /\ trail = [t \in TexIds |-> NoTrail]
    /\ allocs = [t \in TexIds |-> 0]
    /\ calc_in = None
    /\ calc_out = <<>>

\* Frames rich in geometry: up to MaxPrims primitives, each a callback, a
\* visible quad of texture 0, a visible triangle of texture 99, an off-screen
\* triangle of texture 0 or a visible mesh of two vertices and no index.
\* The only texture ever set is id 0.
GeomShapes == {<<4, 0, ClipVisible>>, <<3, 99, ClipVisible>>,
               <<3, 0, ClipOffRight>>, <<2, 99, ClipVisible>>}
GeomPrims  == PrimLists(MaxPrims, GeomShapes)
GeomSets   == SetLists({0}, {[image |-> FullColor, pos |-> None]})

PrepareGeom ==
    \E prims \in GeomPrims, set \in GeomSets :
        Prepare([set |-> set, free |-> {}], prims, Screen200)

Next == PrepareGeom \/ Render

Spec == Init /\ [][Next]_vars

\* Frames rich in texture deltas: every delta of every id, in every order,
\* with ids freed; the geometry is one triangle of each texture id.
TexPrims == {<<MeshPrim(1, 3, 0, ClipVisible), MeshPrim(2, 3, 99, ClipVisible)>>}
TexSets  == SetLists(TexIds, ImageDeltas)
TexFrees == {{}, {0}}

PrepareTex ==
    \E prims \in TexPrims, set \in TexSets, free \in TexFrees :
        Prepare([set |-> set, free |-> free], prims, Screen100)

TexNext == PrepareTex \/ Render

TexSpec == Init /\ [][TexNext]_vars

(***************************************************************************)
(* calculate_pixel_rect on its own: applied to the arguments chosen at the *)
(* start, then applied again to its own result.                            *)
(***************************************************************************)
Coords == (0 - CoordNeg)..CoordPos
\* pixels_per_point, in halves: -1.0, 0.0, 0.5, 1.0, 2.0
Scales == {-2, 0, 1, 2, 4}

\* The two rects of the end-to-end scenarios
Scenarios ==
    {[clip_rect |-> ClipRect(0, 0, 100, 100), pixels_per_point |-> 2,
      target_size |-> <<200, 200>>],
     [clip_rect |-> ClipRect(-50, -50, 10, 10), pixels_per_point |-> 4,
      target_size |-> <<100, 100>>]}

RectInit ==
    /\ vertex_buffer = <<>>
    /\ index_buffer = <<>>
    /\ egui_texture = <<>>
    /\ groups = <<>>
    /\ uniform = [screen_size_in_points |-> <<<<0, 1>>, <<0, 1>>>>]
    /\ pass = <<>>
    /\ log = <<>>
    /\ frame = None
    /\ everSet = {}
    /\ trail = [t \in TexIds |-> NoTrail]
    /\ allocs = [t \in TexIds |-> 0]
    /\ calc_out = <<>>
    /\ \/ calc_in \in Scenarios
       \/ \E x0 \in Coords, y0 \in Coords, x1 \in Coords, y1 \in Coords,
             s \in Scales, w \in 0..MaxTarget, h \in 0..MaxTarget :
            calc_in = [clip_rect |-> [min |-> [x |-> x0, y |-> y0],
                                      max |-> [x |-> x1, y |-> y1]],
                       pixels_per_point |-> s, target_size |-> <<w, h>>]

Calc ==
    /\ calc_out = <<>>
    /\ calc_out' = <<calculate_pixel_rect(calc_in.clip_rect, calc_in.pixels_per_point,
                                          calc_in.target_size)>>
    /\ UNCHANGED calc_in
    /\ UNCHANGED pipeVars

Reapply ==
    /\ Len(calc_out) = 1
    /\ calc_out' = Append(calc_out,
                          calculate_pixel_rect(RectAsClip(calc_out[1]),
                                               calc_in.pixels_per_point,
                                               calc_in.target_size))
    /\ UNCHANGED calc_in
    /\ UNCHANGED pipeVars

RectNext == Calc \/ Reapply

RectSpec == RectInit /\ [][RectNext]_vars

(***************************************************************************)
(* Properties of calculate_pixel_rect, under RectSpec                      *)
(***************************************************************************)
\* The arguments of the run, and readings of them that do not go through
\* the definitions of the function: scaled bounds in quarters of a pixel.
TargetW == calc_in.target_size[1]
TargetH == calc_in.target_size[2]
ScaledMinX == calc_in.pixels_per_point * calc_in.clip_rect.min.x
ScaledMinY == calc_in.pixels_per_point * calc_in.clip_rect.min.y
ScaledMaxX == calc_in.pixels_per_point * calc_in.clip_rect.max.x
ScaledMaxY == calc_in.pixels_per_point * calc_in.clip_rect.max.y

\* v brought into [lo, hi], for lo <= hi
Into(v, lo, hi) == Max2(lo, Min2(v, hi))

\* n is the integer nearest to q quarters, q >= 0, a tie going up
IsNearest(n, q) == 4 * n - 2 <= q /\ q < 4 * n + 2

LeftOf  == ScaledMaxX < 0
Above   == ScaledMaxY < 0
RightOf == ScaledMinX > 4 * TargetW
Below   == ScaledMinY > 4 * TargetH
Inverted == \/ calc_in.clip_rect.max.x < calc_in.clip_rect.min.x
            \/ calc_in.clip_rect.max.y < calc_in.clip_rect.min.y
OutsideOrInverted == LeftOf \/ Above \/ RightOf \/ Below \/ Inverted
PositiveScale == calc_in.pixels_per_point > 0
TargetNotEmpty == TargetW >= 1 /\ TargetH >= 1

Calculated == Len(calc_out) >= 1
Reapplied  == Len(calc_out) = 2

\* C2 as stated: for a clip rect fully outside the target or inverted, a
\* positive scale and a target of at least 1x1, the origin lies in
\* [0, target] and width and height are both at least 1.
C2_OffscreenAtLeastOneByOne ==
    (Calculated /\ OutsideOrInverted /\ PositiveScale /\ TargetNotEmpty) =>
        /\ 0 <= calc_out[1].origin.x /\ calc_out[1].origin.x <= TargetW
        /\ 0 <= calc_out[1].origin.y /\ calc_out[1].origin.y <= TargetH
        /\ calc_out[1].size.width >= 1
        /\ calc_out[1].size.height >= 1

\* C2 as amended: for a clip rect fully outside the target or inverted, a
\* positive scale and a target of at least 1x1, the origin lies in
\* [0, target], the rect lies inside the target, the width is
\* at least 1 exactly when the origin is left of the target's right edge and
\* the height at least 1 exactly when it is above the bottom edge; a rect
\* that is not inverted gives width (height) 0 at the edge when it is right
\* of (below) the target, and width (height) 1 at 0 when left of (above) it.
C2_OffscreenClampedMaybeEmpty ==
    (Calculated /\ OutsideOrInverted /\ PositiveScale /\ TargetNotEmpty) =>
        LET r == calc_out[1] IN
        /\ 0 <= r.origin.x /\ r.origin.x <= TargetW
        /\ 0 <= r.origin.y /\ r.origin.y <= TargetH
        /\ r.size.width >= 0 /\ r.origin.x + r.size.width <= TargetW
        /\ r.size.height >= 0 /\ r.origin.y + r.size.height <= TargetH
        /\ (r.size.width >= 1) <=> (r.origin.x < TargetW)
        /\ (r.size.height >= 1) <=> (r.origin.y < TargetH)
        /\ (RightOf /\ ~Inverted) => (r.origin.x = TargetW /\ r.size.width = 0)
        /\ (Below /\ ~Inverted) => (r.origin.y = TargetH /\ r.size.height = 0)
        /\ (LeftOf /\ ~Inverted) => (r.origin.x = 0 /\ r.size.width = 1)
        /\ (Above /\ ~Inverted) => (r.origin.y = 0 /\ r.size.height = 1)

\* C2 witness: a clip rect right of the target has been converted, to an
\* empty rect at the target's right edge.
C2_Witness ==
    /\ Calculated /\ RightOf /\ ~Inverted /\ PositiveScale /\ TargetNotEmpty
    /\ calc_out[1].origin.x = TargetW
    /\ calc_out[1].size.width = 0

\* A clip rect with integer bounds 0 <= min < max <= target on both axes
IntegerInside ==
    /\ \A c \in {calc_in.clip_rect.min.x, calc_in.clip_rect.min.y,
                 calc_in.clip_rect.max.x, calc_in.clip_rect.max.y} : c % 2 = 0
    /\ 0 <= calc_in.clip_rect.min.x
    /\ calc_in.clip_rect.min.x < calc_in.clip_rect.max.x
    /\ calc_in.clip_rect.max.x <= 2 * TargetW
    /\ 0 <= calc_in.clip_rect.min.y
    /\ calc_in.clip_rect.min.y < calc_in.clip_rect.max.y
    /\ calc_in.clip_rect.max.y <= 2 * TargetH

\* C3 as stated: for every scale, the function applied to its own result
\* for an integer rect inside the target returns that result again.
C3_IdempotentAnyScale ==
    (Reapplied /\ IntegerInside /\ PositiveScale) =>
        RectOnly(calc_out[2]) = RectOnly(calc_out[1])

\* C3 as amended: at scale 1.0 the function applied to its own result for an
\* integer rect inside the target returns that result again.
C3_IdempotentAtScaleOne ==
    (Reapplied /\ IntegerInside /\ calc_in.pixels_per_point = 2) =>
        RectOnly(calc_out[2]) = RectOnly(calc_out[1])

\* C3 witness: the function has been applied twice at scale 1.0 to an integer
\* rect inside the target that does not touch the target's edges.
C3_Witness ==
    /\ Reapplied /\ IntegerInside /\ calc_in.pixels_per_point = 2
    /\ calc_in.clip_rect.min.x > 0 /\ calc_in.clip_rect.max.x < 2 * TargetW
    /\ calc_out[2].origin.x = 1 /\ calc_out[2].size.width = 1

\* C7: every rect returned lies inside the target surface, and no u32
\* subtraction of the function goes below zero.
C7_RectInsideTarget ==
    \A i \in 1..Len(calc_out) :
        /\ calc_out[i].origin.x <= TargetW
        /\ calc_out[i].origin.y <= TargetH
        /\ calc_out[i].origin.x + calc_out[i].size.width <= TargetW
        /\ calc_out[i].origin.y + calc_out[i].size.height <= TargetH
        /\ ~calc_out[i].underflow

\* C7 witness: an inverted clip rect that starts inside the target has been
\* converted.
C7_Witness ==
    /\ Calculated
    /\ calc_in.clip_rect.max.x < calc_in.clip_rect.min.x
    /\ calc_in.clip_rect.max.x > 0
    /\ calc_out[1].origin.x > 0
    /\ calc_out[1].size.width = 1

\* C8: when the scaled bounds, clamped to the target, are at least one pixel
\* apart on each axis, the rect is the intersection of the scaled clip rect
\* with the target: origin = round(clamp(scale*min, 0, target)) and origin +
\* size = round(clamp(scale*max, min, target)); the two scenarios give
\* (0,0,100,100) and (0,0,20,20).
C8_RectIsIntersection ==
    Calculated =>
        \A r \in {calc_out[1]},
           minX \in {Into(ScaledMinX, 0, 4 * TargetW)},
           minY \in {Into(ScaledMinY, 0, 4 * TargetH)} :
        \A maxX \in {Into(ScaledMaxX, minX, 4 * TargetW)},
           maxY \in {Into(ScaledMaxY, minY, 4 * TargetH)} :
            /\ (maxX - minX >= 4 /\ maxY - minY >= 4) =>
                /\ IsNearest(r.origin.x, minX)
                /\ IsNearest(r.origin.y, minY)
                /\ IsNearest(r.origin.x + r.size.width, maxX)
                /\ IsNearest(r.origin.y + r.size.height, maxY)
            /\ (calc_in.clip_rect = ClipRect(0, 0, 100, 100)
                    /\ calc_in.pixels_per_point = 2 /\ calc_in.target_size = <<200, 200>>)
                => RectOnly(r) = [origin |-> [x |-> 0, y |-> 0],
                                  size |-> [width |-> 100, height |-> 100]]
            /\ (calc_in.clip_rect = ClipRect(-50, -50, 10, 10)
                    /\ calc_in.pixels_per_point = 4 /\ calc_in.target_size = <<100, 100>>)
                => RectOnly(r) = [origin |-> [x |-> 0, y |-> 0],
                                  size |-> [width |-> 20, height |-> 20]]

\* C8 witness: a clip rect whose scaled bounds fall on half pixels, more
\* than a pixel apart, has been converted.
C8_Witness ==
    /\ Calculated
    /\ ScaledMinX = 2 /\ ScaledMaxX = 10 /\ ScaledMinY = 0 /\ ScaledMaxY = 4
    /\ TargetW = 3
    /\ calc_out[1].origin.x = 1 /\ calc_out[1].size.width = 2

(***************************************************************************)
(* Properties of the batching loop, under Spec                             *)
(***************************************************************************)
Prepared == frame # <<>>
Frame == frame[1]

\* The mesh primitives of the last prepare, in input order, and the
\* positions they had in its primitive list
FrameMeshes == SelectSeq(Frame.prims, IsMesh)

RECURSIVE MeshPositionsFrom(_, _)
MeshPositionsFrom(prims, k) ==
    IF k > Len(prims) THEN <<>>
    ELSE IF IsMesh(prims[k]) THEN <<k>> \o MeshPositionsFrom(prims, k + 1)
    ELSE MeshPositionsFrom(prims, k + 1)

\* The number of vertices of the mesh primitives before position pos
RECURSIVE VerticesBefore(_, _)
VerticesBefore(prims, pos) ==
    IF pos <= 1 THEN 0
    ELSE VerticesBefore(prims, pos - 1)
         + (IF IsMesh(prims[pos - 1]) THEN Len(prims[pos - 1].primitive.vertices) ELSE 0)

\* C5: after every prepare there is one group per Mesh primitive of that
\* call and none for a Callback, and the k-th group carries the texture id
\* and the (pixel) clip rect of the k-th mesh primitive.
C5_OneGroupPerMesh ==
    Prepared =>
        /\ Len(groups) = Len(FrameMeshes)
        /\ \A k \in 1..Len(groups) :
            k <= Len(FrameMeshes) =>
                /\ groups[k].tex_id = FrameMeshes[k].primitive.texture_id
                /\ groups[k].pixel_rect =
                       RectOnly(calculate_pixel_rect(FrameMeshes[k].clip_rect,
                                                     Frame.sd.pixels_per_point,
                                                     Frame.sd.size_in_pixels))
                /\ FrameMeshes[k].clip_rect = ClipVisible =>
                       groups[k].pixel_rect = [origin |-> [x |-> 0, y |-> 0],
                                               size |-> [width |-> 100, height |-> 100]]

\* C5 witness: a frame of a callback followed by one mesh has been prepared:
\* one group, one warning.
C5_Witness ==
    /\ Prepared
    /\ Len(Frame.prims) = 2
    /\ ~IsMesh(Frame.prims[1]) /\ IsMesh(Frame.prims[2])
    /\ Len(groups) = 1 /\ groups[1].tex_id = 99
    /\ log = <<"Callback not implemented">>

\* C6: every index stored in a group's range points into the vertices of the
\* group's own primitive: it is at least the number of vertices appended
\* before the primitive, less than that number plus the primitive's vertex
\* count, and so inside the shared vertex buffer.
C6_IndicesInOwnSlice ==
    Prepared =>
        LET at == MeshPositionsFrom(Frame.prims, 1) IN
        \A k \in 1..Len(groups) :
            k <= Len(at) =>
                LET base == VerticesBefore(Frame.prims, at[k])
                    n    == Len(Frame.prims[at[k]].primitive.vertices)
                IN  \A i \in (groups[k].range[1] + 1)..groups[k].range[2] :
                        /\ i <= Len(index_buffer)
                        /\ index_buffer[i] >= base
                        /\ index_buffer[i] < base + n
                        /\ index_buffer[i] < Len(vertex_buffer)
                        /\ vertex_buffer[index_buffer[i] + 1][1] = at[k]

\* C6 witness: a second mesh has been batched behind a quad, and its indices
\* point past the quad's four vertices.
C6_Witness ==
    /\ Prepared
    /\ Len(groups) = 2
    /\ groups[2].range = <<6, 9>>
    /\ index_buffer[7] = 4 /\ index_buffer[9] = 6
    /\ Len(vertex_buffer) = 7

\* C9: after every prepare the group ranges partition the index buffer in
\* input order: the first starts at 0, each is as long as its primitive's
\* index list, each starts where the one before ends, and the last ends at
\* the number of indices uploaded; a single quad gives the range 0..6.
C9_RangesPartitionIndexBuffer ==
    Prepared =>
        /\ Len(groups) = 0 => Len(index_buffer) = 0
        /\ Len(groups) > 0 =>
            /\ groups[1].range[1] = 0
            /\ groups[Len(groups)].range[2] = Len(index_buffer)
        /\ \A k \in 1..Len(groups) :
            /\ k <= Len(FrameMeshes) =>
                   groups[k].range[2] - groups[k].range[1]
                       = Len(FrameMeshes[k].primitive.indices)
            /\ k > 1 => groups[k].range[1] = groups[k - 1].range[2]
        /\ (Len(Frame.prims) = 1 /\ Len(FrameMeshes) = 1
                /\ Len(FrameMeshes[1].primitive.vertices) = 4)
            => (Len(groups) = 1 /\ groups[1].range = <<0, 6>>)

\* C9 witness: a triangle, then a quad, have been batched.
C9_Witness ==
    /\ Prepared
    /\ Len(groups) = 2
    /\ groups[1].range = <<0, 3>>
    /\ groups[2].range = <<3, 9>>
    /\ Len(index_buffer) = 9

(***************************************************************************)
(* Properties of render, under Spec                                        *)
(***************************************************************************)
Rendered == pass # <<>>

\* C1: render issues no set_scissor_rect and no draw for a group whose rect
\* is not empty and whose texture id is not in the cache, and logs a warning
\* for it; every draw it issues is made with the binding of the group's own
\* texture in force.
C1_UnknownTextureNotDrawn ==
    Rendered =>
        /\ \A k \in 1..Len(groups) :
            (~RectIsEmpty(groups[k].pixel_rect) /\ groups[k].tex_id \notin DOMAIN egui_texture)
                => /\ \A i \in 1..Len(pass) : pass[i].group # k
                   /\ \E j \in 1..Len(log) : log[j] = <<"Unknown texture", groups[k].tex_id>>
        /\ \A i \in 1..Len(pass) :
            pass[i].op = "draw_indexed" =>
                /\ groups[pass[i].group].tex_id \in DOMAIN egui_texture
                /\ pass[i].bound = egui_texture[groups[pass[i].group].tex_id].binding

(***************************************************************************)
(* Properties of the texture cache, under TexSpec                          *)
(***************************************************************************)
\* C4: once a set-delta has created the texture of an id, the next delta of
\* that id had a position and the one after that had none, the cache holds
\* the id with the texture object the first delta created, the only one ever
\* created for the id, and every pixel of it is the full update's.
C4_FullUpdateSupersedesPartial ==
    \A t \in TexIds :
        trail[t].stage = "full" =>
            /\ t \in DOMAIN egui_texture
            /\ egui_texture[t].texture.object = trail[t].object
            /\ egui_texture[t].binding = trail[t].object
            /\ allocs[t] = 1
            /\ egui_texture[t].texture.pixels = trail[t].image

\* C4 witness: texture 0 has been created, patched and then overwritten by
\* the font image, whose two coverages 1.0 and 0.0 are its pixels now.
C4_Witness ==
    /\ trail[0].stage = "full"
    /\ 0 \in DOMAIN egui_texture
    /\ egui_texture[0].texture.pixels = <<<<255, 255, 255, 255>>, <<0, 0, 0, 0>>>>

\* C10: the keys of the texture cache are the ids that have appeared in a
\* set-delta so far; each keeps the one texture object created for it (a
\* later set-delta updates it in place, a free-delta and render leave it),
\* and at render every group with a non-empty rect whose id has been set is
\* bound to that id's binding and draws without an unknown-texture warning.
C10_CacheKeepsEverySetId ==
    /\ DOMAIN egui_texture = everSet
    /\ \A t \in everSet :
        /\ allocs[t] = 1
        /\ egui_texture[t].texture.object = <<t, 1>>
        /\ egui_texture[t].binding = <<t, 1>>
    /\ Rendered =>
        \A k \in 1..Len(groups) :
            (~RectIsEmpty(groups[k].pixel_rect) /\ groups[k].tex_id \in everSet) =>
                /\ \E i \in 1..Len(pass) :
                    /\ pass[i].op = "draw_indexed" /\ pass[i].group = k
                    /\ pass[i].bound = <<groups[k].tex_id, 1>>
                /\ \A j \in 1..Len(log) : log[j] # <<"Unknown texture", groups[k].tex_id>>

\* C10 witness: texture 0 was set in an earlier prepare and updated since,
\* the last prepare freed it and set texture 99, and render has drawn both
\* groups.
C10_Witness ==
    /\ Rendered /\ Prepared
    /\ everSet = TexIds
    /\ trail[0].stage = "other"
    /\ trail[99].stage = "created"
    /\ Frame.free = {0}
    /\ \E i \in 1..Len(pass) : pass[i].op = "draw_indexed" /\ pass[i].bound = <<0, 1>>
    /\ \E i \in 1..Len(pass) : pass[i].op = "draw_indexed" /\ pass[i].bound = <<99, 1>>

====
